---- MODULE Spec2Model ----
(***************************************************************************)
(* Rated virtual contests (VCs) of the TLE bot: the ratedvc command, the   *)
(* WatchRatedVCs background task and the store, identity and judge         *)
(* collaborators they call (src/tle/cogs/contests.py).                     *)
(*                                                                         *)
(* The unit of time is the length of a rated VC.  A handle is written as   *)
(* the id of the member it belongs to; None is the handle of a member      *)
(* without one.                                                            *)
(***************************************************************************)
EXTENDS Integers, Sequences, FiniteSets, TLC

\* ------------------------------------------------------------------ bounds
MaxVc == 2
MaxTime == 2
MaxFaults == 1
MaxSubs == 1

\* ------------------------------------------------------- program constants
\* contest.durationSeconds + _RATED_VC_EXTRA_TIME of the contest the VCs run
VcLength == 1
DefaultVcRating == 1500
None == 0

Members == {1, 2}
Guilds == {1, 2}
VcContests == {1}
Deltas == {-1, 1}
VcIds == 1..MaxVc
\* Submissions being judged that are to another contest, or made after the VC
OtherSubs == {<<2, VcLength>>, <<1, VcLength + 1>>}

VARIABLES
    clock,          \* time.time()
    channel,        \* per guild: "unset", "set" (stored and alive) or "deleted" (stored, gone from the chat platform)
    hasHandle,      \* per member: whether get_handle resolves
    testing,        \* per member: submissions made in a VC whose verdict is TESTING, as <<contestId, relativeTimeSeconds>>
    nsubs,          \* submissions made so far
    nvc,            \* rows of rated_vcs
    vcs,            \* per VC id: contest_id, start_time, finish_time, guild_id, status
    users,          \* per VC id: the user ids registered in it, in order
    history,        \* per member: the rating records, <<vc_id, rating>>, oldest first
    pc,             \* where the WatchRatedVCs task is
    ongoing,        \* ongoing_rated_vcs of the running tick
    idx,            \* position of the for loop in ongoing
    member_ids,     \* locals of _watch_rated_vc
    handles,
    now,
    ranklist,       \* TRUE once generate_vc_ranklist has returned
    hidx,           \* position of the has_running_subs comprehension
    running_subs_flag,
    channel_obj,    \* channel of _watch_rated_vc: TRUE when bot.get_channel returned a channel
    pendingSeen,    \* a status fetch of the VC being watched returned a pending submission inside its window
    faults,         \* interrupted settlements, deleted channels and unlinked handles so far
    last,           \* "deferred_pending" when _watch_rated_vc last returned from a VC that was over and had a pending submission
    owed,           \* VC ids whose fetch failed in an earlier tick and that were not watched since
    nFinish,        \* calls of finish_rated_vc per VC
    removedBy,      \* per VC id: members the settlement of that VC called remove_last_ratedvc_participation for
    finalDeltas     \* per VC id: delta_by_handle of the ranklist the VC was finished with

\* ---------------------------------------- clist API (src/tle/util/clist_api.py)
VARIABLES
    utcnow,         \* the clock the clist module reads, in seconds
    api_pc,         \* "idle", or "query" while a call of _query_clist_api is running
    api_fn,         \* the API function that is running or ran last: "none", "account", "statistics"
    try_i,          \* i of the for loop of ratelimit's wrapped
    q_hist,         \* the responses to the attempts of the running (or last) call of _query_clist_api
    q_out,          \* how that call ended: kind "retry" while it runs, "return" or "raise"
    slept,          \* seconds of asyncio.sleep since the last request
    sent_in_window, \* requests the upstream API received in the current second
    api_out,        \* how the last API function ended: kind "none", "return" or "raise"
    limit,          \* statistics: the limit parameter
    offset,         \* statistics: offset
    results,        \* statistics: results
    offsets,        \* statistics: the offsets _query_clist_api was called with, in order
    upstream,       \* statistics: the items the upstream source holds, in its order
    db_file,        \* the file at CONTESTS_DB_FILE_PATH: its state ("absent", "empty", "partial", "complete") and the db in it
    cache_pc,       \* "idle", or "writing" while cache is inside its with open(db_file, 'w')
    pending_db,     \* db of the cache call that is writing
    n_calls,        \* calls of cache so far
    n_fetch,        \* calls of _query_api so far
    last_forced,    \* forced of the last call of cache
    cache_out,      \* how the last call of cache ended: "none", "return", "raise" or "killed"
    seen,           \* what the last reader of the file found
    cache_ticks,    \* steps of the clock between the calls of cache
    contest,        \* the contest format_contest is called with: known, start (in seconds) and duration
    phase,          \* phase of the Contest the last call of format_contest made, "none" before the first
    phase_at        \* now of that call

apiVars == <<api_pc, api_fn, try_i, q_hist, q_out, slept, sent_in_window, api_out,
             limit, offset, results, offsets, upstream>>
cacheVars == <<db_file, cache_pc, pending_db, n_calls, n_fetch, last_forced, cache_out,
               seen, cache_ticks>>
phaseVars == <<contest, phase, phase_at>>
clistVars == <<utcnow, apiVars, cacheVars, phaseVars>>

\* The clock reading when the bot starts: some time long after the epoch.
StartTime == 3600

NoDb == [querytime |-> 0, objects |-> 0]

\* A file in this state: an absent, empty or partly written file holds no db.
File(state, db) == [state |-> state, querytime |-> db.querytime, objects |-> db.objects]

NoOut == [kind |-> "none", err |-> "none", attempt |-> 0]

InitClist ==
    /\ utcnow = StartTime
    /\ db_file = File("absent", NoDb)
    /\ cache_pc = "idle"
    /\ pending_db = NoDb
    /\ n_calls = 0
    /\ n_fetch = 0
    /\ last_forced = FALSE
    /\ cache_out = "none"
    /\ seen = File("absent", NoDb)
    /\ cache_ticks = 0
    /\ contest = [known |-> FALSE, start |-> 0, duration |-> 0]
    /\ phase = "none"
    /\ phase_at = 0
    /\ api_pc = "idle"
    /\ api_fn = "none"
    /\ try_i = 0
    /\ q_hist = <<>>
    /\ q_out = NoOut
    /\ slept = 0
    /\ sent_in_window = 0
    /\ api_out = NoOut
    /\ limit = 0
    /\ offset = 0
    /\ results = <<>>
    /\ offsets = <<>>
    /\ upstream = <<>>

\* ------------------------- commands and watches that overlap (contests.py)
VARIABLES
    cmd,            \* per running ratedvc command: where it is ("idle", or "visited" while it awaits get_visited_contests) and its members
    watch,          \* per running call of _watch_rated_vc: where it is ("idle", or "fetch" while it awaits its fetches) and its locals
    unreg           \* the <<member, VC id>> participations _unregistervc removed

raceVars == <<cmd, watch, unreg>>

\* The ratedvc commands, and the calls of _watch_rated_vc, that can be running at once.
Slots == {1, 2}

NoCmd == [pc |-> "idle", members |-> {}]

NoWatch == [pc |-> "idle", vc_id |-> 0, member_ids |-> <<>>, handles |-> <<>>, now |-> 0]

InitRace ==
    /\ cmd = [s \in Slots |-> NoCmd]
    /\ watch = [s \in Slots |-> NoWatch]
    /\ unreg = {}

\* ------------------------------------ team rating (src/tle/cogs/codeforces.py)
VARIABLES
    cr_pc,          \* composeRatings: "idle", "loop" inside its for loop, "done" once it returned
    cr_left0,       \* the arguments left and right of the call
    cr_right0,
    ratings,        \* the argument ratings: a sequence of <<rating, count>>
    tt,             \* rounds of the for loop done
    cr_left,        \* the locals left and right, as steps of (right0 - left0) / 2^21 above left0
    cr_right,
    teamRating,     \* what the call returned
    raised,         \* the ratings of a second call, made beside the first with the same left and right
    up_left,        \* left and right of the second call
    up_right,
    upRating,       \* what the second call returned
    elo             \* the last pair of ratings getEloWinProbability was asked for, and its answers

ratingVars == <<cr_pc, cr_left0, cr_right0, ratings, tt, cr_left, cr_right, teamRating,
               raised, up_left, up_right, upRating, elo>>

NoElo == [ra |-> 0, rb |-> 0, ab |-> 0, ba |-> 0, aa |-> 0, asked |-> FALSE]

InitRating ==
    /\ cr_pc = "idle"
    /\ cr_left0 = 0
    /\ cr_right0 = 0
    /\ ratings = <<>>
    /\ tt = 0
    /\ cr_left = 0
    /\ cr_right = 0
    /\ teamRating = 0
    /\ raised = <<>>
    /\ up_left = 0
    /\ up_right = 0
    /\ upRating = 0
    /\ elo = NoElo

\* Every variable the rated VC actions of the task and the environment leave alone.
otherVars == <<clistVars, raceVars, ratingVars>>

storeVars == <<nvc, vcs, users, history>>
envVars == <<clock, channel, hasHandle, testing, nsubs>>
localVars == <<member_ids, handles, now, ranklist, hidx, running_subs_flag, channel_obj>>
taskVars == <<pc, ongoing, idx>>
ghostVars == <<pendingSeen, faults, last, owed, nFinish, removedBy, finalDeltas>>
vcVars == <<storeVars, envVars, localVars, taskVars, ghostVars>>
vars == <<storeVars, envVars, localVars, taskVars, ghostVars, clistVars, raceVars, ratingVars>>

\* ----------------------------------------------------------------- helpers
Range(s) == {s[i] : i \in 1..Len(s)}

Max(S) == CHOOSE x \in S : \A y \in S : y <= x

\* The members of S in increasing order.
RECURSIVE SortedSeq(_)
SortedSeq(S) == IF S = {} THEN <<>>
                ELSE LET m == CHOOSE x \in S : \A y \in S : x <= y
                     IN <<m>> \o SortedSeq(S \ {m})

NoVc == [contest_id |-> 0, start_time |-> 0, finish_time |-> 0, guild_id |-> 0, status |-> "NONE"]

\* ---------------------------------------------------------- store (user_db)
get_ongoing_rated_vc_ids == SortedSeq({v \in 1..nvc : vcs[v].status = "ONGOING"})

get_rated_vc_user_ids(vc_id) == users[vc_id]

get_rated_vc_channel(guild_id) == IF channel[guild_id] = "unset" THEN None ELSE guild_id

\* bot.get_channel: None once the channel is gone from the chat platform.
get_channel(guild_id) == IF channel[guild_id] = "set" THEN guild_id ELSE None

get_handle(member_id) == IF hasHandle[member_id] THEN member_id ELSE None

get_vc_rating_of(h) == IF Len(h) = 0 THEN DefaultVcRating ELSE h[Len(h)][2]

get_vc_rating(member_id) == get_vc_rating_of(history[member_id])

\* The users table after remove_last_ratedvc_participation(member_id): the
\* member leaves the latest VC it is registered in.
remove_last_ratedvc_participation(u, member_id) ==
    LET mine == {v \in DOMAIN u : member_id \in Range(u[v])}
    IN IF mine = {} THEN u
       ELSE [u EXCEPT ![Max(mine)] = SelectSeq(u[Max(mine)], LAMBDA x : x # member_id)]

update_vc_rating(h, vc_id, member_id, rating) ==
    [h EXCEPT ![member_id] = Append(h[member_id], <<vc_id, rating>>)]

finish_rated_vc(t, vc_id) == [t EXCEPT ![vc_id].status = "FINISHED"]

_get_ongoing_vc_participants ==
    UNION {Range(get_rated_vc_user_ids(v)) : v \in Range(get_ongoing_rated_vc_ids)}

\* -------------------------------------------------------------------- Init
Init ==
    /\ clock = 0
    /\ channel = [g \in Guilds |-> "set"]
    /\ hasHandle = [m \in Members |-> TRUE]
    /\ testing = [m \in Members |-> {}]
    /\ nsubs = 0
    /\ nvc = 0
    /\ vcs = [v \in VcIds |-> NoVc]
    /\ users = [v \in VcIds |-> <<>>]
    /\ history = [m \in Members |-> <<>>]
    /\ pc = "idle"
    /\ ongoing = <<>>
    /\ idx = 0
    /\ member_ids = <<>>
    /\ handles = <<>>
    /\ now = 0
    /\ ranklist = FALSE
    /\ hidx = 0
    /\ running_subs_flag = FALSE
    /\ channel_obj = FALSE
    /\ pendingSeen = FALSE
    /\ faults = 0
    /\ last = "other"
    /\ owed = {}
    /\ nFinish = [v \in VcIds |-> 0]
    /\ removedBy = [v \in VcIds |-> {}]
    /\ finalDeltas = [v \in VcIds |-> <<>>]
    /\ InitClist
    /\ InitRace
    /\ InitRating

\* ------------------------------------------------------------- environment
AdvanceClock ==
    /\ UNCHANGED otherVars
    /\ clock < MaxTime
    /\ clock' = clock + 1
    /\ UNCHANGED <<channel, hasHandle, testing, nsubs, storeVars, localVars, taskVars, ghostVars>>

set_ratedvc_channel(g) ==
    /\ UNCHANGED otherVars
    /\ channel' = [channel EXCEPT ![g] = "set"]
    /\ UNCHANGED <<clock, hasHandle, testing, nsubs, storeVars, localVars, taskVars, ghostVars>>

\* The rated-VC channel of a guild is deleted on the chat platform; the store keeps its id.
DeleteChannel(g) ==
    /\ UNCHANGED otherVars
    /\ channel[g] = "set"
    /\ \E v \in Range(get_ongoing_rated_vc_ids) : vcs[v].guild_id = g
    /\ faults < MaxFaults
    /\ faults' = faults + 1
    /\ channel' = [channel EXCEPT ![g] = "deleted"]
    /\ UNCHANGED <<clock, hasHandle, testing, nsubs, storeVars, localVars, taskVars,
                   pendingSeen, last, owed, nFinish, removedBy, finalDeltas>>

\* A member unlinks the handle: get_handle returns None from now on.
UnlinkHandle(m) ==
    /\ UNCHANGED otherVars
    /\ hasHandle[m]
    /\ m \in _get_ongoing_vc_participants
    /\ faults < MaxFaults
    /\ faults' = faults + 1
    /\ hasHandle' = [hasHandle EXCEPT ![m] = FALSE]
    /\ UNCHANGED <<clock, channel, testing, nsubs, storeVars, localVars, taskVars,
                   pendingSeen, last, owed, nFinish, removedBy, finalDeltas>>

\* A submission of member m to the contest of its VC, made in the VC, enters judging.
Submit(m) ==
    /\ UNCHANGED otherVars
    /\ nsubs < MaxSubs
    /\ hasHandle[m]
    /\ testing[m] = {}
    /\ \E v \in Range(get_ongoing_rated_vc_ids) :
          /\ m \in Range(get_rated_vc_user_ids(v))
          /\ testing' = [testing EXCEPT ![m] = {<<vcs[v].contest_id, vcs[v].finish_time - vcs[v].start_time>>}]
    /\ nsubs' = nsubs + 1
    /\ UNCHANGED <<clock, channel, hasHandle, storeVars, localVars, taskVars, ghostVars>>

\* The judge gives a submission its final verdict.
Judge(m, s) ==
    /\ UNCHANGED otherVars
    /\ s \in testing[m]
    /\ testing' = [testing EXCEPT ![m] = @ \ {s}]
    /\ UNCHANGED <<clock, channel, hasHandle, nsubs, storeVars, localVars, taskVars, ghostVars>>

\* ----------------------------------------------------------------- ratedvc
create_rated_vc(contest_id, start_time, finish_time, guild_id, user_ids) ==
    /\ nvc' = nvc + 1
    /\ vcs' = [vcs EXCEPT ![nvc + 1] = [contest_id |-> contest_id, start_time |-> start_time,
                                        finish_time |-> finish_time, guild_id |-> guild_id,
                                        status |-> "ONGOING"]]
    /\ users' = [users EXCEPT ![nvc + 1] = user_ids]

ratedvc(g, contest_id, members) ==
    /\ UNCHANGED otherVars
    /\ nvc < MaxVc
    /\ get_rated_vc_channel(g) # None /\ get_channel(g) # None
    /\ members # {}
    /\ members \cap _get_ongoing_vc_participants = {}
    /\ \A m \in members : get_handle(m) # None
    /\ create_rated_vc(contest_id, clock, clock + VcLength, g, SortedSeq(members))
    /\ UNCHANGED <<history, envVars, localVars, taskVars, ghostVars>>

\* ------------------------------------------------------ WatchRatedVCs task
cur == ongoing[idx]

resetLocals ==
    /\ member_ids' = <<>>
    /\ handles' = <<>>
    /\ now' = 0
    /\ ranklist' = FALSE
    /\ hidx' = 0
    /\ running_subs_flag' = FALSE
    /\ channel_obj' = FALSE
    /\ pendingSeen' = FALSE

\* An exception leaves _watch_rated_vc and the for loop of the tick: the tick is over.
Raise(fetch) ==
    /\ last' = "other"
    /\ pc' = "idle"
    /\ idx' = 0
    /\ ongoing' = <<>>
    /\ owed' = IF fetch THEN {cur} ELSE {}
    /\ resetLocals

\* _watch_rated_vc returned: the for loop goes to the next id, or the tick is over.
Return(how) ==
    /\ last' = how
    /\ resetLocals
    /\ IF idx < Len(ongoing)
       THEN /\ pc' = "begin"
            /\ idx' = idx + 1
            /\ UNCHANGED <<ongoing, owed>>
       ELSE /\ pc' = "idle"
            /\ idx' = 0
            /\ ongoing' = <<>>
            /\ owed' = {}

\* A tick that takes every VC of the store, finished ones too.
TickStartAllVcs ==
    /\ UNCHANGED otherVars
    /\ pc = "idle"
    /\ nvc > 0
    /\ ongoing' = SortedSeq(1..nvc)
    /\ pc' = "begin"
    /\ idx' = 1
    /\ UNCHANGED <<storeVars, envVars, localVars, ghostVars>>

TickStart ==
    /\ UNCHANGED otherVars
    /\ pc = "idle"
    /\ get_ongoing_rated_vc_ids # <<>>
    /\ ongoing' = get_ongoing_rated_vc_ids
    /\ pc' = "begin"
    /\ idx' = 1
    /\ UNCHANGED <<storeVars, envVars, localVars, ghostVars>>

\* _watch_rated_vc up to the await of generate_vc_ranklist.
WatchBegin ==
    /\ UNCHANGED otherVars
    /\ pc = "begin"
    /\ LET vc == vcs[cur]
           ids == get_rated_vc_user_ids(cur)
       IN IF get_rated_vc_channel(vc.guild_id) = None
          THEN Raise(FALSE)
          ELSE IF get_channel(vc.guild_id) = None /\ ids # <<>>
          THEN Raise(FALSE)
          ELSE /\ channel_obj' = (get_channel(vc.guild_id) # None)
               /\ member_ids' = ids
               /\ handles' = [i \in 1..Len(ids) |-> get_handle(ids[i])]
               /\ now' = clock
               /\ pc' = "ranklist"
               /\ owed' = owed \ {cur}
               /\ UNCHANGED <<ranklist, hidx, running_subs_flag, pendingSeen, ongoing, idx, last>>
    /\ UNCHANGED <<storeVars, envVars, faults, nFinish, removedBy, finalDeltas>>

\* The delta_by_handle of the ranklists generate_vc_ranklist can return: a delta for
\* some of the handles.
Ranklists(hs) == UNION {[D -> Deltas] : D \in SUBSET (Range(hs) \ {None})}

\* channel.send succeeds on a channel that is still there.
CanSend(vc) == channel_obj /\ get_channel(vc.guild_id) # None

\* The decision without the look at the submissions being judged.
IsDeferredIgnoringSubs(t, finish_time, running) == t < finish_time

\* The decision without the look at the clock.
IsDeferredIgnoringTime(t, finish_time, running) == running

IsDeferred(t, finish_time, running) == t < finish_time \/ running

\* The VC is not over, or submissions are still being judged: show the standings and return.
Defer(pending) ==
    /\ IF CanSend(vcs[cur])
       THEN Return(IF pending /\ now >= vcs[cur].finish_time THEN "deferred_pending" ELSE "other")
       ELSE Raise(FALSE)
    /\ UNCHANGED <<storeVars, faults, nFinish, removedBy, finalDeltas>>

\* The new rating with the delta taken off.
NewRatingMinus(old_rating, delta) == old_rating - delta

NewRating(old_rating, delta) == old_rating + delta

\* The body of the loop over zip(handles, member_ids), for one handle and member_id.
SettleRound(st, delta_by_handle, vc_id, handle, member_id) ==
    IF handle \notin DOMAIN delta_by_handle
    THEN [st EXCEPT !.u = remove_last_ratedvc_participation(st.u, member_id),
                    !.rem = @ \cup {member_id}]
    ELSE [st EXCEPT !.h = update_vc_rating(st.h, vc_id, member_id,
                              NewRating(get_vc_rating_of(st.h[member_id]), delta_by_handle[handle]))]

\* One round of the loop over zip(handles, member_ids).
SettleOne(st, delta_by_handle, vc_id, i) ==
    SettleRound(st, delta_by_handle, vc_id, handles[i], member_ids[i])

\* The first k rounds of the loop, from round i on.
RECURSIVE SettleLoop(_, _, _, _, _)
SettleLoop(st, delta_by_handle, vc_id, i, k) ==
    IF i > k THEN st
    ELSE SettleLoop(SettleOne(st, delta_by_handle, vc_id, i), delta_by_handle, vc_id, i + 1, k)

\* finish_rated_vc called whether or not the loop came to its end.
FinishReachedAlways(done, n) == TRUE

\* finish_rated_vc follows the loop: it is reached once all n rounds are done.
FinishReached(done, n) == done > n

\* The settlement, from the loop to finish_rated_vc, runs without an await. done is the
\* number of store writes that completed: a store call that raises, or the death of the
\* process, stops it early. delta_by_handle is what the ranklist of the tick holds.
Settle ==
    \E delta_by_handle \in Ranklists(handles), done \in 0..(Len(member_ids) + 1) :
        LET n == Len(member_ids)
            st == SettleLoop([u |-> users, h |-> history, rem |-> removedBy[cur]],
                             delta_by_handle, cur, 1, IF done > n THEN n ELSE done)
        IN /\ done <= n => faults < MaxFaults
           /\ users' = st.u
           /\ history' = st.h
           /\ removedBy' = [removedBy EXCEPT ![cur] = st.rem]
           /\ UNCHANGED nvc
           /\ IF ~FinishReached(done, n)
              THEN /\ faults' = faults + 1
                   /\ Raise(FALSE)
                   /\ UNCHANGED <<vcs, nFinish, finalDeltas>>
              ELSE /\ vcs' = finish_rated_vc(vcs, cur)
                   /\ nFinish' = [nFinish EXCEPT ![cur] = @ + 1]
                   /\ finalDeltas' = [finalDeltas EXCEPT ![cur] = delta_by_handle]
                   /\ UNCHANGED faults
                   /\ IF CanSend(vcs[cur]) THEN Return("other") ELSE Raise(FALSE)

\* From the end of the has_running_subs comprehension to the return of _watch_rated_vc.
Decide(running, pending) ==
    IF IsDeferred(now, vcs[cur].finish_time, running) THEN Defer(pending) ELSE Settle

\* generate_vc_ranklist returns; with no handle to ask the status of, the decision follows at once.
RanklistOk ==
    /\ UNCHANGED otherVars
    /\ pc = "ranklist"
    /\ IF Len(handles) = 0
       THEN Decide(FALSE, FALSE)
       ELSE /\ ranklist' = TRUE
            /\ pc' = "status"
            /\ hidx' = 1
            /\ UNCHANGED <<storeVars, member_ids, handles, now, running_subs_flag, channel_obj,
                           ongoing, idx, ghostVars>>
    /\ UNCHANGED envVars

RanklistFail ==
    /\ UNCHANGED otherVars
    /\ pc = "ranklist"
    /\ Raise(TRUE)
    /\ UNCHANGED <<storeVars, envVars, faults, nFinish, removedBy, finalDeltas>>

\* cf.user.status(handle): the submissions of the handle whose verdict is TESTING, those
\* made in a VC and others.
user_status(handle, others) == IF handle = None THEN {} ELSE testing[handle] \cup others

has_running_subs(vc, subs) ==
    {sub \in subs : sub[1] = vc.contest_id /\ sub[2] <= vc.finish_time - vc.start_time}

\* The handle has a submission to the contest of the VC, made in the VC, that is being judged.
Pending(vc, handle) ==
    /\ handle # None
    /\ \E sub \in testing[handle] : sub[1] = vc.contest_id

\* cf.user.status returns for one handle; after the last handle the decision follows at once.
StatusOk ==
    /\ UNCHANGED otherVars
    /\ pc = "status"
    /\ \E others \in SUBSET OtherSubs :
       LET running == running_subs_flag
                      \/ has_running_subs(vcs[cur], user_status(handles[hidx], others)) # {}
           pending == pendingSeen \/ Pending(vcs[cur], handles[hidx])
       IN IF hidx < Len(handles)
          THEN /\ running_subs_flag' = running
               /\ pendingSeen' = pending
               /\ hidx' = hidx + 1
               /\ UNCHANGED <<storeVars, member_ids, handles, now, ranklist, channel_obj,
                              taskVars, faults, last, owed, nFinish, removedBy, finalDeltas>>
          ELSE Decide(running, pending)
    /\ UNCHANGED envVars

StatusFail ==
    /\ UNCHANGED otherVars
    /\ pc = "status"
    /\ Raise(TRUE)
    /\ UNCHANGED <<storeVars, envVars, faults, nFinish, removedBy, finalDeltas>>

Env ==
    \/ AdvanceClock
    \/ \E g \in Guilds : set_ratedvc_channel(g)
    \/ \E g \in Guilds : DeleteChannel(g)
    \/ \E m \in Members : UnlinkHandle(m)
    \/ \E m \in Members : Submit(m)
    \/ \E m \in Members : \E s \in testing[m] : Judge(m, s)

Task ==
    \/ TickStart
    \/ WatchBegin
    \/ RanklistOk
    \/ RanklistFail
    \/ StatusOk
    \/ StatusFail

Next ==
    \/ Env
    \/ \E g \in Guilds, c \in VcContests, ms \in SUBSET Members : ratedvc(g, c, ms)
    \/ Task

Spec == Init /\ [][Next]_vars

\* The task keeps ticking, every fetch of every VC succeeds again and again, the clock
\* moves and every submission is judged.
Fairness ==
    /\ WF_vars(TickStart)
    /\ WF_vars(WatchBegin)
    /\ \A v \in VcIds : SF_vars(pc = "ranklist" /\ cur = v /\ RanklistOk)
    /\ \A v \in VcIds : SF_vars(pc = "status" /\ cur = v /\ StatusOk)
    /\ WF_vars(AdvanceClock)
    /\ \A m \in Members : WF_vars(\E s \in testing[m] : Judge(m, s))

FairSpec == Spec /\ Fairness

\* ------------------------------------------------------------------ claims
\* The rating records of member m that VC v wrote, oldest first.
RecordsOf(h, v, m) == SelectSeq(h[m], LAMBDA rec : rec[1] = v)

\* The calls of update_vc_rating(v, m, .) so far: each appends one record.
NumUpdates(v, m) == Len(RecordsOf(history, v, m))

\* The members with a delta in the ranklist VC v was finished with (a handle is written
\* as the id of its member).
finalRated == [v \in VcIds |-> DOMAIN finalDeltas[v]]

\* A step of the task that ends the tick.
TickEnds == pc # "idle" /\ pc' = "idle"

\* The pending submissions the status fetches of the VC being watched returned, the one
\* that returns in this step included.
PendingNow == pendingSeen \/ (pc = "status" /\ Pending(vcs[cur], handles[hidx]))

\* C1: over the whole run finish_rated_vc(vc) is executed at most once and, for every
\* participant with a delta in the ranklist the VC was finished with,
\* update_vc_rating(vc, participant, .) is executed exactly once.
C1_RatedExactlyOnce ==
    \A v \in VcIds :
        /\ nFinish[v] <= 1
        /\ vcs[v].status = "FINISHED" => \A m \in finalRated[v] : NumUpdates(v, m) = 1

\* C2: a VC that is still ONGOING has no participant with a rating record for it and no
\* participant its settlement removed, also after a settlement that stopped part-way.
C2_NeverHalfRated ==
    \A v \in VcIds :
        vcs[v].status = "ONGOING" =>
            /\ removedBy[v] = {}
            /\ \A m \in Members : NumUpdates(v, m) = 0

\* C3: a tick ends only after _watch_rated_vc was called for every id that
\* get_ongoing_rated_vc_ids returned for it, also when one of the calls raised.
C3_OthersStillProcessed == [][TickEnds => idx = Len(ongoing)]_vars

C5_PendingDefers ==
    [][(pc # "idle" /\ PendingNow) =>
          /\ vcs'[cur] = vcs[cur]
          /\ users'[cur] = users[cur]
          /\ history' = history]_vars

\* A VC past its finish time was deferred because of a pending submission and is ONGOING.
C5_Witness ==
    /\ last = "deferred_pending"
    /\ \E v \in VcIds : vcs[v].status = "ONGOING" /\ vcs[v].finish_time <= clock /\ users[v] # <<>>

C7_OnlyWhenOverAndJudged ==
    [][\A v \in VcIds :
          (\/ vcs[v].status = "ONGOING" /\ vcs'[v].status = "FINISHED"
           \/ \E m \in Members : RecordsOf(history', v, m) # RecordsOf(history, v, m)) =>
              /\ pc # "idle"
              /\ cur = v
              /\ now >= vcs[v].finish_time
              /\ ~PendingNow]_vars

\* A VC was finished, all of its participants rated, after a submission had been judged.
C7_Witness ==
    \E v \in VcIds :
        /\ vcs[v].status = "FINISHED"
        /\ users[v] # <<>>
        /\ finalRated[v] = Range(users[v])
        /\ nsubs > 0

\* C8: with ticks that keep firing, submissions that get judged and fetches that succeed
\* again and again, an ONGOING VC whose finish time has passed, in a guild whose channel
\* is there, is eventually FINISHED, whatever happens to the other VCs.
C8_EventuallyFinished ==
    \A v \in VcIds :
        (vcs[v].status = "ONGOING" /\ clock >= vcs[v].finish_time)
            ~> \/ vcs[v].status = "FINISHED"
               \/ vcs[v].status = "ONGOING" /\ channel[vcs[v].guild_id] # "set"

\* C9: a step of the watch of a VC changes nothing in the store for a participant whose
\* handle lookup returned None: the participant stays in the VC and gets no rating record.
C9_NoneHandleSkipped ==
    [][pc # "idle" =>
          \A i \in 1..Len(member_ids) :
              handles[i] = None =>
                  /\ member_ids[i] \in Range(users[cur]) => member_ids[i] \in Range(users'[cur])
                  /\ history'[member_ids[i]] = history[member_ids[i]]]_vars

\* The ranklist fetch or a status fetch of the VC being watched fails in this step.
FetchFails == pc \in {"ranklist", "status"} /\ pc' = "idle" /\ owed' = {cur}

\* C10: a failed fetch leaves the VC as it was (ONGOING, same users, no rating record
\* written), and the next tick calls _watch_rated_vc for it.
C10_FetchFailurePostpones ==
    [][/\ FetchFails =>
            /\ vcs'[cur] = vcs[cur]
            /\ vcs[cur].status = "ONGOING"
            /\ users'[cur] = users[cur]
            /\ history' = history
       /\ TickEnds => owed \subseteq {cur}]_vars

RanklistRequested == pc = "ranklist" \/ ranklist

\* The watch that is running has handles whose status it has not all fetched yet.
PendingCheckOpen == pc \in {"ranklist", "status"} /\ handles # <<>>

\* C24: in the watch of a VC the ranklist is requested only after the status of every
\* handle was fetched and showed no pending submission: while the check is open, and
\* once it has seen a pending submission, no ranklist request was made.
C24_RanklistAfterPendingCheck == (PendingCheckOpen \/ pendingSeen) => ~RanklistRequested

\* ============================ commands and watches that overlap (contests.py)
\* Calls of _unregistervc in a run.
MaxUnreg == 1

\* The ranklists the overlapping watches are given: a delta of 1 for some of the handles.
RisingRanklists(hs) == UNION {[D -> {1}] : D \in SUBSET (Range(hs) \ {None})}

\* Every variable the overlapping commands and watches leave alone.
raceFrame == <<channel, hasHandle, testing, nsubs, localVars, taskVars, ghostVars,
               clistVars, ratingVars>>

\* The clock moves while commands and watches are suspended.
RaceTick ==
    /\ clock < MaxTime
    /\ clock' = clock + 1
    /\ UNCHANGED <<storeVars, raceVars>>
    /\ UNCHANGED raceFrame

\* ratedvc from its check against the participants of ongoing VCs to its await of
\* get_visited_contests.
ratedvc_check(s, g, members) ==
    /\ cmd[s].pc = "idle"
    /\ nvc < MaxVc
    /\ get_rated_vc_channel(g) # None /\ get_channel(g) # None
    /\ members # {}
    /\ members \cap _get_ongoing_vc_participants = {}
    /\ \A m \in members : get_handle(m) # None
    /\ cmd' = [cmd EXCEPT ![s] = [pc |-> "visited", members |-> members]]
    /\ UNCHANGED <<storeVars, clock, watch, unreg>>
    /\ UNCHANGED raceFrame

\* ratedvc after get_visited_contests returned: create_rated_vc, in guild 1.
ratedvc_create(s) ==
    /\ cmd[s].pc = "visited"
    /\ nvc < MaxVc
    /\ create_rated_vc(1, clock, clock + VcLength, 1, SortedSeq(cmd[s].members))
    /\ cmd' = [cmd EXCEPT ![s] = NoCmd]
    /\ UNCHANGED <<history, clock, watch, unreg>>
    /\ UNCHANGED raceFrame

\* _watch_rated_vc(vc_id), called for an id that is ongoing, up to its await of
\* generate_vc_ranklist.
_watch_rated_vc(s, vc_id) ==
    /\ watch[s].pc = "idle"
    /\ vc_id \in Range(get_ongoing_rated_vc_ids)
    /\ get_rated_vc_channel(vcs[vc_id].guild_id) # None
    /\ get_channel(vcs[vc_id].guild_id) # None
    /\ LET ids == get_rated_vc_user_ids(vc_id)
       IN watch' = [watch EXCEPT ![s] = [pc |-> "fetch", vc_id |-> vc_id, member_ids |-> ids,
                                        handles |-> [i \in 1..Len(ids) |-> get_handle(ids[i])],
                                        now |-> clock]]
    /\ UNCHANGED <<storeVars, clock, cmd, unreg>>
    /\ UNCHANGED raceFrame

\* The loop over zip(handles, member_ids) of one call, from round i on.
RECURSIVE SettleAll(_, _, _, _, _, _)
SettleAll(st, delta_by_handle, vc_id, hs, ids, i) ==
    IF i > Len(ids) THEN st
    ELSE SettleAll(SettleRound(st, delta_by_handle, vc_id, hs[i], ids[i]),
                   delta_by_handle, vc_id, hs, ids, i + 1)

\* The fetches of a call of _watch_rated_vc have returned, with no submission being
\* judged: it shows the standings and returns, or settles the VC.
WatchResumes(s, delta_by_handle) ==
    /\ watch[s].pc = "fetch"
    /\ delta_by_handle \in Ranklists(watch[s].handles)
    /\ LET w == watch[s]
           st == SettleAll([u |-> users, h |-> history, rem |-> {}], delta_by_handle,
                           w.vc_id, w.handles, w.member_ids, 1)
       IN IF IsDeferred(w.now, vcs[w.vc_id].finish_time, FALSE)
          THEN UNCHANGED storeVars
          ELSE /\ users' = st.u
               /\ history' = st.h
               /\ vcs' = finish_rated_vc(vcs, w.vc_id)
               /\ UNCHANGED nvc
    /\ watch' = [watch EXCEPT ![s] = NoWatch]
    /\ UNCHANGED <<clock, cmd, unreg>>
    /\ UNCHANGED raceFrame

\* The latest VC the member is registered in.
LastVcOf(member_id) == Max({v \in VcIds : member_id \in Range(users[v])})

_unregistervc(member_id) ==
    /\ Cardinality(unreg) < MaxUnreg
    /\ member_id \in _get_ongoing_vc_participants
    /\ users' = remove_last_ratedvc_participation(users, member_id)
    /\ unreg' = unreg \cup {<<member_id, LastVcOf(member_id)>>}
    /\ UNCHANGED <<nvc, vcs, history, clock, cmd, watch>>
    /\ UNCHANGED raceFrame

RaceNext ==
    \/ RaceTick
    \/ \E s \in Slots, ms \in SUBSET Members : ratedvc_check(s, 1, ms)
    \/ \E s \in Slots : ratedvc_create(s)
    \/ \E s \in Slots, v \in VcIds : _watch_rated_vc(s, v)
    \/ \E s \in Slots : \E d \in RisingRanklists(watch[s].handles) : WatchResumes(s, d)
    \/ \E m \in Members : _unregistervc(m)

RaceSpec == Init /\ [][RaceNext]_vars

\* ------------------------------------- claims, overlapping commands and watches
\* The rating of member m before the first record VC v wrote for it.
RatingBefore(h, v, m) ==
    LET first == CHOOSE k \in 1..Len(h[m]) : h[m][k][1] = v /\ \A j \in 1..(k - 1) : h[m][j][1] # v
    IN IF first = 1 THEN DefaultVcRating ELSE h[m][first - 1][2]

\* C26: also when two calls of _watch_rated_vc for one VC overlap, each participant gets
\* one rating record for the VC at most, and the rating after the VC is the rating before
\* it plus one delta.
C26_OverlapSettlesOnce ==
    \A v \in VcIds, m \in Members :
        LET recs == RecordsOf(history, v, m)
        IN /\ Len(recs) <= 1
           /\ Len(recs) >= 1 => (recs[Len(recs)][2] - RatingBefore(history, v, m)) \in Deltas

\* C28: a member is a participant of at most one ONGOING rated VC, also while ratedvc
\* commands overlap.
C28_OneOngoingVcPerMember ==
    \A m \in Members :
        Cardinality({v \in Range(get_ongoing_rated_vc_ids) : m \in Range(users[v])}) <= 1

\* C29: a call of _watch_rated_vc that read a member whom _unregistervc then removed from
\* the VC writes no rating record of that VC for the member, and does not remove the
\* member from a FINISHED VC.
C29_SettlesOnlyItsVc ==
    [][\A s \in Slots :
          (watch[s].pc = "fetch" /\ watch'[s].pc = "idle") =>
              \A i \in 1..Len(watch[s].member_ids) :
                  LET m == watch[s].member_ids[i]
                      v == watch[s].vc_id
                  IN <<m, v>> \in unreg =>
                        /\ RecordsOf(history', v, m) = RecordsOf(history, v, m)
                        /\ \A v2 \in VcIds :
                              (vcs[v2].status = "FINISHED" /\ m \in Range(users[v2]))
                                  => m \in Range(users'[v2])]_vars

\* ======================================== clist API (src/tle/util/clist_api.py)
\* ------------------------------------------------------------------ bounds
MaxApiTime == 2
\* A caller starts an API function only while fewer requests than this were sent in the second.
MaxSentInWindow == 3

\* ------------------------------------------------------- program constants
tries == 3
delay == 20
\* The 1000 of the paging loop of statistics.
PageLength == 1000
\* The k of the spec's "at most k calls per time unit".
RateK == 2

\* What a request can come back with: HTTP 429, another status that is not 200, an
\* exception of requests.get or resp.json, or a 200 whose body has an objects list with
\* items ("objects"), an empty objects list ("empty") or no objects list ("no_objects").
Failures == {"429", "500", "conn"}
Responses == Failures \cup {"objects", "empty", "no_objects"}
Limits == {10, 50, 1000}
UpstreamSizes == {0, 25, 999, 1000, 2500}

\* Every variable the API functions leave alone.
apiFrame == <<vcVars, raceVars, ratingVars, cacheVars, phaseVars>>

Min(a, b) == IF a <= b THEN a ELSE b

\* The exception raised inside the try of _query_clist_api.
RaisedInTry(resp) ==
    IF resp = "429" THEN "CallLimitExceededError"
    ELSE IF resp = "500" THEN "ClistApiError"
    ELSE IF resp = "conn" THEN "RequestException"
    ELSE "none"

\* _query_clist_api with the look for an empty objects list moved into it.
QueryRaisesNotFound(resp) ==
    IF resp = "empty"
    THEN [ok |-> FALSE, err |-> "HandleNotFoundError", cause |-> "none"]
    ELSE IF RaisedInTry(resp) = "none"
    THEN [ok |-> TRUE, err |-> "none", cause |-> "none"]
    ELSE [ok |-> FALSE, err |-> "ClientError", cause |-> RaisedInTry(resp)]

\* _query_clist_api: the raises of the try are themselves caught by its except Exception
\* and replaced by ClientError, with the first exception as the cause.
_query_clist_api(resp) ==
    IF RaisedInTry(resp) = "none"
    THEN [ok |-> TRUE, err |-> "none", cause |-> "none"]
    ELSE [ok |-> FALSE, err |-> "ClientError", cause |-> RaisedInTry(resp)]

\* The seconds wrapped sleeps after attempt i failed with err.
SleepAfterNever(err, i) == 0

SleepAfter(err, i) == IF err = "CallLimitExceededError" THEN delay * (i + 1) ELSE 0

\* wrapped giving up after the second attempt.
RetriesOnce(i) == i < tries - 2

\* Attempt i failed: wrapped goes round the loop again.
Retries(i) == i < tries - 1

\* The page the upstream source serves for a request with this offset and limit.
Page(items, off, lim) == SubSeq(items, off + 1, Min(off + lim, Len(items)))

\* The loop left after a page that is full, too.
IsLastPageOrFull(objects) == Len(objects) <= PageLength

\* The loop left by the limit of the call.
IsLastPageByLimit(objects) == Len(objects) < limit

\* statistics leaves its loop after this page.
IsLastPage(objects) == Len(objects) < PageLength

ApiTick ==
    /\ utcnow < StartTime + MaxApiTime
    /\ utcnow' = utcnow + 1
    /\ sent_in_window' = 0
    /\ UNCHANGED <<api_pc, api_fn, try_i, q_hist, q_out, slept, api_out,
                   limit, offset, results, offsets, upstream>>
    /\ UNCHANGED apiFrame

\* An API function is called: up to its first call of _query_clist_api.
StartCall(fn, lim, items) ==
    /\ api_pc = "idle"
    /\ sent_in_window < MaxSentInWindow
    /\ api_pc' = "query"
    /\ api_fn' = fn
    /\ try_i' = 0
    /\ q_hist' = <<>>
    /\ q_out' = NoOut
    /\ slept' = 0
    /\ api_out' = NoOut
    /\ limit' = lim
    /\ offset' = 0
    /\ results' = <<>>
    /\ offsets' = IF fn = "statistics" THEN <<0>> ELSE <<>>
    /\ upstream' = items
    /\ UNCHANGED <<utcnow, sent_in_window>>
    /\ UNCHANGED apiFrame

account == StartCall("account", 0, <<>>)

statistics(lim, n) == StartCall("statistics", lim, [k \in 1..n |-> k])

\* The request of one attempt is sent and answered.
Request(resp) ==
    /\ api_pc = "query"
    /\ (resp = "empty") => (api_fn = "account")
    /\ q_hist' = (IF try_i = 0 THEN <<>> ELSE q_hist) \o <<resp>>

\* The API function is over.
Finish(kind, err) ==
    /\ api_pc' = "idle"
    /\ api_out' = [kind |-> kind, err |-> err, attempt |-> try_i + 1]
    /\ try_i' = 0

\* account after its call of _query_clist_api returned resp.
AccountAfter(resp) ==
    IF resp = "no_objects" THEN Finish("raise", "ClientError")
    ELSE IF resp = "empty" THEN Finish("raise", "HandleNotFoundError")
    ELSE Finish("return", "none")

\* statistics raising for every response without an objects list.
RaisesWithoutObjectsAlways(off) == TRUE

\* statistics got a response without an objects list for this offset: it raises
\* ClientError, or else leaves its loop.
RaisesWithoutObjects(off) == off = 0

\* statistics after its call of _query_clist_api returned resp.
StatisticsAfter(resp) ==
    IF resp = "no_objects"
    THEN /\ IF RaisesWithoutObjects(offset)
            THEN Finish("raise", "ClientError")
            ELSE Finish("return", "none")
         /\ UNCHANGED <<offset, results, offsets>>
    ELSE LET objects == Page(upstream, offset, limit)
         IN /\ results' = results \o objects
            /\ IF IsLastPage(objects)
               THEN /\ Finish("return", "none")
                    /\ UNCHANGED <<offset, offsets>>
               ELSE /\ offset' = offset + PageLength
                    /\ offsets' = Append(offsets, offset + PageLength)
                    /\ try_i' = 0
                    /\ UNCHANGED <<api_pc, api_out>>

\* An attempt succeeds: wrapped returns the response and the API function goes on.
QueryReturns(resp) ==
    /\ Request(resp)
    /\ _query_clist_api(resp).ok
    /\ q_out' = [kind |-> "return", err |-> "none", attempt |-> try_i + 1]
    /\ sent_in_window' = sent_in_window + 1
    /\ slept' = 0
    /\ IF api_fn = "account"
       THEN AccountAfter(resp) /\ UNCHANGED <<offset, results, offsets>>
       ELSE StatisticsAfter(resp)
    /\ UNCHANGED <<utcnow, api_fn, limit, upstream>>
    /\ UNCHANGED apiFrame

\* An attempt fails and wrapped tries again.
QueryRetries(resp) ==
    /\ Request(resp)
    /\ LET r == _query_clist_api(resp)
           nap == SleepAfter(r.err, try_i)
       IN /\ ~r.ok
          /\ Retries(try_i)
          /\ q_out' = [kind |-> "retry", err |-> r.err, attempt |-> try_i + 1]
          /\ slept' = nap
          /\ utcnow' = utcnow + nap
          /\ sent_in_window' = IF nap > 0 THEN 0 ELSE sent_in_window + 1
    /\ try_i' = try_i + 1
    /\ UNCHANGED <<api_pc, api_fn, api_out, limit, offset, results, offsets, upstream>>
    /\ UNCHANGED apiFrame

\* The last attempt fails: wrapped raises its error, and so does the API function.
QueryRaises(resp) ==
    /\ Request(resp)
    /\ LET r == _query_clist_api(resp)
           nap == SleepAfter(r.err, try_i)
       IN /\ ~r.ok
          /\ ~Retries(try_i)
          /\ q_out' = [kind |-> "raise", err |-> r.err, attempt |-> try_i + 1]
          /\ slept' = nap
          /\ utcnow' = utcnow + nap
          /\ sent_in_window' = IF nap > 0 THEN 0 ELSE sent_in_window + 1
          /\ Finish("raise", r.err)
    /\ UNCHANGED <<api_fn, limit, offset, results, offsets, upstream>>
    /\ UNCHANGED apiFrame

ApiNext ==
    \/ ApiTick
    \/ account
    \/ \E lim \in Limits, n \in UpstreamSizes : statistics(lim, n)
    \/ \E resp \in Responses : QueryReturns(resp)
    \/ \E resp \in Responses : QueryRetries(resp)
    \/ \E resp \in Responses : QueryRaises(resp)

ApiSpec == Init /\ [][ApiNext]_vars


\* ----------------------------------------------------- claims, clist API
\* This step sends a request to the upstream API.
Sends == sent_in_window' = sent_in_window + 1

\* The response to the latest attempt.
LastResp(h) == h[Len(h)]

\* C11: a call through the retry wrapper makes at most 3 attempts; when it returns, the
\* attempt it returns the result of is the first that succeeded (all before it failed);
\* when it raises, all 3 attempts failed and the error is that of the third.
C11_ThreeAttempts ==
    /\ Len(q_hist) <= tries
    /\ q_out.kind = "return" =>
          /\ LastResp(q_hist) \notin Failures
          /\ \A k \in 1..(Len(q_hist) - 1) : q_hist[k] \in Failures
          /\ q_out.attempt = Len(q_hist)
    /\ q_out.kind = "raise" =>
          /\ Len(q_hist) = tries
          /\ \A k \in 1..tries : q_hist[k] \in Failures
          /\ q_out.attempt = tries
          /\ q_out.err = _query_clist_api(q_hist[tries]).err

\* A call returned on its third attempt, after two failures.
C11_Witness ==
    /\ q_out.kind = "return"
    /\ Len(q_hist) = 3

\* C12: every attempt after the first of a call is sent only after a sleep of more than
\* zero seconds since the attempt before it, after a 429 as after any other failure.
C12_DelayBetweenAttempts ==
    [][(api_pc = "query" /\ try_i > 0 /\ Sends) => slept > 0]_vars

\* C13: the upstream API never receives more than k requests within one second.
C13_AtMostKPerWindow == sent_in_window <= RateK

\* C14: in account, the request answered with an empty objects list is the last of the
\* call: the call ends there with HandleNotFoundError.
C14_NotFoundNotRetried ==
    [][(api_fn = "account" /\ Sends /\ LastResp(q_hist') = "empty") =>
          /\ api_pc' = "idle"
          /\ api_out'.kind = "raise"
          /\ api_out'.err = "HandleNotFoundError"]_vars

\* account ended with HandleNotFoundError.
C14_Witness ==
    /\ api_fn = "account"
    /\ api_pc = "idle"
    /\ api_out.err = "HandleNotFoundError"
    /\ LastResp(q_hist) = "empty"

\* C15: statistics with limit 1000, against a source of N items that answers every page,
\* returns the N items in upstream order, having called for the offsets 0, 1000, 2000, ...
\* in that order, floor(N / 1000) + 1 of them.
C15_AllPagesInOrder ==
    (/\ api_fn = "statistics"
     /\ api_pc = "idle"
     /\ api_out.kind = "return"
     /\ limit = PageLength
     /\ LastResp(q_hist) = "objects") =>
        /\ results = upstream
        /\ offsets = [k \in 1..((Len(upstream) \div PageLength) + 1) |-> (k - 1) * PageLength]

\* statistics returned the 2500 items of the source after 3 page requests.
C15_Witness ==
    /\ api_fn = "statistics"
    /\ api_pc = "idle"
    /\ api_out.kind = "return"
    /\ limit = PageLength
    /\ Len(upstream) = 2500
    /\ Len(results) = 2500
    /\ Len(offsets) = 3

\* C16, as stated: for every limit, statistics goes on to the next page exactly when the
\* page it got holds limit items.
C16_StopsBelowLimit ==
    [][(api_fn = "statistics" /\ Sends /\ LastResp(q_hist') = "objects") =>
          ((api_pc' = "query") <=> (Len(Page(upstream, offset, limit)) = limit))]_vars

\* C16, amended: for every limit, statistics goes on to the next page exactly when the
\* page it got holds at least 1000 items; with a limit below 1000 the first page is the
\* only one, and the result is that page.
C16_StopsBelowPageLength ==
    [][(api_fn = "statistics" /\ Sends /\ LastResp(q_hist') = "objects") =>
          /\ (api_pc' = "query") <=> (Len(Page(upstream, offset, limit)) >= PageLength)
          /\ limit < PageLength =>
                /\ api_pc' = "idle"
                /\ api_out'.kind = "return"
                /\ results' = Page(upstream, 0, limit)]_vars

\* statistics with limit 10 returned 10 of the 25 items of the source.
C16_Witness ==
    /\ api_fn = "statistics"
    /\ api_pc = "idle"
    /\ api_out.kind = "return"
    /\ limit = 10
    /\ Len(upstream) = 25
    /\ Len(results) = 10

\* C30: in statistics, a response without an objects list raises ClientError only when
\* it answers the request for the first page; answering a later page it ends the call
\* without an error, and the call returns the items of the pages before it, in order.
C30_NoObjectsEndsLaterPage ==
    [][(api_fn = "statistics" /\ Sends /\ LastResp(q_hist') = "no_objects") =>
          /\ api_pc' = "idle"
          /\ (api_out'.kind = "raise") <=> (offset = 0)
          /\ api_out'.kind = "raise" => api_out'.err = "ClientError"
          /\ offset > 0 =>
                /\ api_out'.kind = "return"
                /\ results' = SubSeq(upstream, 1, offset)]_vars

\* statistics returned the first 2000 items after the third page came without objects.
C30_Witness ==
    /\ api_fn = "statistics"
    /\ api_pc = "idle"
    /\ api_out.kind = "return"
    /\ LastResp(q_hist) = "no_objects"
    /\ offsets = <<0, 1000, 2000>>
    /\ Len(results) = 2000

\* ------------------------------------------------ the contest store (cache)
MaxCacheCalls == 3
MaxCacheTicks == 3

_CLIST_API_TIME_DIFFERENCE == 1800

\* The steps the clock makes between calls of cache, in seconds.
ClockSteps == {1, 1799}

\* Every variable cache leaves alone.
cacheFrame == <<vcVars, raceVars, ratingVars, apiVars, phaseVars>>

\* json.load of the file: None when there is no file or it holds no complete JSON value.
LoadDb(file) ==
    IF file.state # "complete" THEN NoDb ELSE [querytime |-> file.querytime, objects |-> file.objects]

\* last_time_stamp: db['querytime'] if db and db['querytime'] else 0
last_time_stamp(file) == LoadDb(file).querytime

\* cache returns without a fetch; here also when the difference is the whole TTL.
IsFreshInclusive(forced, current_time_stamp, stamp) ==
    ~forced /\ current_time_stamp - stamp <= _CLIST_API_TIME_DIFFERENCE

\* cache returns without a fetch.
IsFresh(forced, current_time_stamp, stamp) ==
    ~forced /\ current_time_stamp - stamp < _CLIST_API_TIME_DIFFERENCE

CacheTick(d) ==
    /\ cache_pc = "idle"
    /\ cache_ticks < MaxCacheTicks
    /\ cache_ticks' = cache_ticks + 1
    /\ utcnow' = utcnow + d
    /\ UNCHANGED <<db_file, cache_pc, pending_db, n_calls, n_fetch, last_forced, cache_out, seen>>
    /\ UNCHANGED cacheFrame

\* cache(forced) up to open(db_file, 'w'), which empties the file; fetch_ok is whether
\* the request of _query_api succeeds.
cache(forced, fetch_ok) ==
    /\ cache_pc = "idle"
    /\ n_calls < MaxCacheCalls
    /\ n_calls' = n_calls + 1
    /\ last_forced' = forced
    /\ IF IsFresh(forced, utcnow, last_time_stamp(db_file))
       THEN /\ cache_out' = "return"
            /\ UNCHANGED <<db_file, cache_pc, pending_db, n_fetch>>
       ELSE /\ n_fetch' = n_fetch + 1
            /\ IF fetch_ok
               THEN /\ pending_db' = [querytime |-> utcnow, objects |-> n_fetch + 1]
                    /\ db_file' = File("empty", NoDb)
                    /\ cache_pc' = "writing"
                    /\ UNCHANGED cache_out
               ELSE /\ cache_out' = "raise"
                    /\ UNCHANGED <<db_file, cache_pc, pending_db>>
    /\ UNCHANGED <<utcnow, seen, cache_ticks>>
    /\ UNCHANGED cacheFrame

\* json.dump(db, f) runs to its end and the file is closed.
CacheDump ==
    /\ cache_pc = "writing"
    /\ db_file' = File("complete", pending_db)
    /\ pending_db' = NoDb
    /\ cache_pc' = "idle"
    /\ cache_out' = "return"
    /\ UNCHANGED <<utcnow, n_calls, n_fetch, last_forced, seen, cache_ticks>>
    /\ UNCHANGED cacheFrame

\* The process dies, or the write raises, after open(db_file, 'w') and before the end of
\* json.dump: the file keeps what was written so far.
CacheInterrupted(left) ==
    /\ cache_pc = "writing"
    /\ db_file' = File(left, NoDb)
    /\ pending_db' = NoDb
    /\ cache_pc' = "idle"
    /\ cache_out' = "killed"
    /\ UNCHANGED <<utcnow, n_calls, n_fetch, last_forced, seen, cache_ticks>>
    /\ UNCHANGED cacheFrame

\* A reader opens the file between two calls of cache.
ReadStore ==
    /\ cache_pc = "idle"
    /\ seen' = db_file
    /\ UNCHANGED <<utcnow, db_file, cache_pc, pending_db, n_calls, n_fetch, last_forced,
                   cache_out, cache_ticks>>
    /\ UNCHANGED cacheFrame

CacheNext ==
    \/ \E d \in ClockSteps : CacheTick(d)
    \/ \E forced \in BOOLEAN, fetch_ok \in BOOLEAN : cache(forced, fetch_ok)
    \/ CacheDump
    \/ \E left \in {"empty", "partial"} : CacheInterrupted(left)
    \/ ReadStore

CacheSpec == Init /\ [][CacheNext]_vars

\* ------------------------------------------------- claims, the contest store
\* This step is a call of cache.
CacheCalled == n_calls' = n_calls + 1

\* The querytime of the store, 0 when no store can be read.
StoredQuerytime == IF db_file.state = "complete" THEN db_file.querytime ELSE 0

\* C17: a call of cache fetches from upstream exactly when forced is true or
\* now - querytime >= 1800 (querytime 0 with no readable store); and an unforced call
\* less than 1800 seconds after the querytime of the store leaves the store as it is.
C17_FetchIffForcedOrStale ==
    [][CacheCalled =>
          /\ (n_fetch' = n_fetch + 1) <=> (last_forced' \/ utcnow - StoredQuerytime >= 1800)
          /\ (n_fetch' = n_fetch) \/ (n_fetch' = n_fetch + 1)
          /\ (n_fetch' = n_fetch) => (db_file' = db_file /\ cache_out' = "return")]_vars

\* An unforced call 1799 seconds after the refresh that wrote the store did not fetch.
C17_Witness ==
    /\ cache_pc = "idle"
    /\ ~last_forced
    /\ cache_out = "return"
    /\ n_calls = 2
    /\ n_fetch = 1
    /\ db_file.state = "complete"
    /\ utcnow - db_file.querytime = 1799

\* C18: a call of cache whose fetch fails while a snapshot is stored leaves the file as
\* it is and raises nothing; it raises only when no snapshot is stored.
C18_FailedRefreshIsSilent ==
    [][(CacheCalled /\ n_fetch' = n_fetch + 1 /\ cache_pc' = "idle") =>
          /\ db_file' = db_file
          /\ (cache_out' = "raise") <=> (db_file.state # "complete")]_vars

\* C19: a reader of the file finds no store yet or a complete db, never an empty or a
\* partly written file.
C19_ReaderSeesComplete == seen.state \notin {"empty", "partial"}

\* ---------------------------------------------------------- format_contest
MaxPhaseTime == 6

\* Starts, as seconds after StartTime, and durations of the contests formatted.
ContestStarts == {1, 3}
ContestDurations == {0, 1, 2}

\* Every variable format_contest leaves alone.
phaseFrame == <<vcVars, raceVars, ratingVars, apiVars, cacheVars>>

\* The phase with the end of the contest counted as CODING.
PhaseOfInclusive(now_, start, duration) ==
    IF now_ < start THEN "BEFORE"
    ELSE IF now_ <= start + duration THEN "CODING"
    ELSE "FINISHED"

\* The if / elif / else of format_contest.
PhaseOf(now_, start, duration) ==
    IF now_ < start THEN "BEFORE"
    ELSE IF now_ < start + duration THEN "CODING"
    ELSE "FINISHED"

\* A contest of the store is picked; it stays the same from then on.
PickContest(start, duration) ==
    /\ ~contest.known
    /\ contest' = [known |-> TRUE, start |-> start, duration |-> duration]
    /\ UNCHANGED <<utcnow, phase, phase_at>>
    /\ UNCHANGED phaseFrame

PhaseTick ==
    /\ utcnow < StartTime + MaxPhaseTime
    /\ utcnow' = utcnow + 1
    /\ UNCHANGED <<contest, phase, phase_at>>
    /\ UNCHANGED phaseFrame

format_contest ==
    /\ contest.known
    /\ phase' = PhaseOf(utcnow, contest.start, contest.duration)
    /\ phase_at' = utcnow
    /\ UNCHANGED <<utcnow, contest>>
    /\ UNCHANGED phaseFrame

PhaseNext ==
    \/ \E st \in ContestStarts, du \in ContestDurations : PickContest(StartTime + st, du)
    \/ PhaseTick
    \/ format_contest

PhaseSpec == Init /\ [][PhaseNext]_vars

\* ------------------------------------------------- claims, format_contest
PhaseRank(ph) == IF ph = "none" THEN 0 ELSE IF ph = "BEFORE" THEN 1 ELSE IF ph = "CODING" THEN 2 ELSE 3

\* C20: the phase format_contest gives is BEFORE when now < start, CODING when
\* start <= now < start + duration and FINISHED otherwise; from one call to the next, for
\* the same contest, it moves only forward along BEFORE, CODING, FINISHED.
C20_PhaseByTimeNeverBack ==
    [][/\ phase' # "none" =>
            /\ (phase' = "BEFORE") <=> (phase_at' < contest'.start)
            /\ (phase' = "CODING") <=>
                   (contest'.start <= phase_at' /\ phase_at' < contest'.start + contest'.duration)
            /\ (phase' = "FINISHED") <=> (phase_at' >= contest'.start + contest'.duration)
       /\ PhaseRank(phase') >= PhaseRank(phase)]_vars

\* A contest with a positive duration is formatted as FINISHED at the second it ends.
C20_Witness ==
    /\ contest.known
    /\ contest.duration > 0
    /\ phase = "FINISHED"
    /\ phase_at = contest.start + contest.duration

\* ===================================== team rating (src/tle/cogs/codeforces.py)
\* The floats of getEloWinProbability and composeRatings are binary fixed-point numbers
\* here: ratings in units of 1/RatingUnit, probabilities and powers of ten in units of
\* 1/One, every division rounding down.  left and right of composeRatings are exact.

\* ------------------------------------------------------------------ bounds
MaxOpponents == 2

\* ------------------------------------------------------- program constants
\* range(20)
Steps == 20
\* 1.0 as a rating and as a probability
RatingUnit == 1024
One == 32768
\* The 400.0 of the Elo formula, and an eightieth of it, as ratings
Decade == 400 * RatingUnit
KnotWidth == 5 * RatingUnit
\* left and right are counted in steps of (right0 - left0) / Grid above left0
Grid == 2 ^ (Steps + 1)

\* 10 ** (k / 80) for k = 0 .. 80
Pow10Knots == <<
    32768, 33725, 34710, 35723, 36766, 37840, 38945, 40082, 41252, 42457,
    43697, 44973, 46286, 47638, 49029, 50460, 51934, 53450, 55011, 56617,
    58271, 59972, 61723, 63526, 65381, 67290, 69255, 71277, 73358, 75501,
    77705, 79974, 82309, 84713, 87187, 89733, 92353, 95050, 97825, 100682,
    103622, 106647, 109761, 112967, 116265, 119660, 123154, 126751, 130452,
    134261, 138182, 142216, 146369, 150643, 155042, 159570, 164229, 169025,
    173960, 179040, 184268, 189649, 195187, 200886, 206752, 212789, 219003,
    225398, 231980, 238754, 245725, 252901, 260285, 267886, 275708, 283759,
    292045, 300573, 309350, 318383, 327680>>

\* What composeRatings is called with.
Ratings == {-99, 1200, 1500, 1900, 9999}
Counts == {1, 2}
RatingLists == UNION {[1..n -> Ratings \X Counts] : n \in 1..MaxOpponents}
\* left and right as teamrate passes them (-100.0, 10000.0), and two other pairs.
BoundPairs == {<<-100, 10000>>, <<0, 4096>>, <<1500, 1500>>}
\* What getEloWinProbability is asked for.
EloRatings == {0, 1200, 1500, 1510, 1900, 3000}

\* Every variable the rating functions leave alone.
ratingFrame == <<vcVars, raceVars, clistVars>>

RECURSIVE TenTo(_)
TenTo(n) == IF n = 0 THEN 1 ELSE 10 * TenTo(n - 1)

\* 10 ** (d / 400.0): exact at every eightieth of a decade, linear between two of them,
\* and cut off above 10 ** 4 and below 10 ** -5.
Pow10(d) ==
    LET q == d \div Decade
        k == (d % Decade) \div KnotWidth
        o == (d % Decade) % KnotWidth
        m == Pow10Knots[k + 1] + ((Pow10Knots[k + 2] - Pow10Knots[k + 1]) * o) \div KnotWidth
    IN IF q >= 4 THEN One * TenTo(4)
       ELSE IF q >= 0 THEN m * TenTo(q)
       ELSE IF q >= -5 THEN m \div TenTo(-q)
       ELSE 0

\* The probability with the two ratings taken the other way round.
getEloWinProbabilitySwapped(ra, rb) == (One * One) \div (One + Pow10(ra - rb))

\* The probability against an opponent rated 100 higher.
getEloWinProbabilityShifted(ra, rb) == (One * One) \div (One + Pow10(rb - ra + 100 * RatingUnit))

\* 1.0 / (1 + 10**((rb - ra) / 400.0))
getEloWinProbability(ra, rb) == (One * One) \div (One + Pow10(rb - ra))

\* p ** count
RECURSIVE PowerOf(_, _)
PowerOf(p, count) == IF count = 0 THEN One ELSE (p * PowerOf(p, count - 1)) \div One

\* The inner for loop: rWinsProbability after the opponents from i on.
RECURSIVE rWinsProbability(_, _, _, _)
rWinsProbability(acc, rr, rs, i) ==
    IF i > Len(rs) THEN acc
    ELSE rWinsProbability(
             (acc * PowerOf(getEloWinProbability(rr, rs[i][1] * RatingUnit), rs[i][2])) \div One,
             rr, rs, i + 1)

\* left0 + (right0 - left0) * x / Grid as a rating, rounded down.
ValueAt(left0, right0, x) ==
    LET w == right0 - left0
        g == Grid \div RatingUnit
    IN left0 * RatingUnit + w * (x \div g) + (w * (x % g)) \div g

\* round(left0 + (right0 - left0) * x / Grid): the nearest integer, the even one of two.
RoundAt(left0, right0, x) ==
    LET w == right0 - left0
        g == Grid \div RatingUnit
        a == w * (x \div g)
        t == (a % RatingUnit) * g + w * (x % g)
        n == left0 + a \div RatingUnit + t \div Grid
        f == t % Grid
    IN IF 2 * f > Grid THEN n + 1
       ELSE IF 2 * f < Grid THEN n
       ELSE IF n % 2 = 0 THEN n ELSE n + 1

\* The test with 1.0 in the place of 0.5.
IsBelowOne(p) == p < One

\* rWinsProbability < 0.5
IsBelowHalf(p) == p < One \div 2

\* The for loop left one round early.
LoopDoneEarly(k) == k = Steps - 1

\* for tt in range(20) has run k rounds and is over.
LoopDone(k) == k = Steps

\* One round of the for loop: the new <<left, right>>.
Halve(lo, hi, left0, right0, rs) ==
    LET mid == (lo + hi) \div 2
    IN IF IsBelowHalf(rWinsProbability(One, ValueAt(left0, right0, mid), rs, 1))
       THEN <<mid, hi>>
       ELSE <<lo, mid>>

\* The ratings with opponent i at rating rb.
Raised(rs, i, rb) == [rs EXCEPT ![i] = <<rb, rs[i][2]>>]

\* composeRatings is called for rs and, beside it, for rs with opponent i at the rating
\* rb, no lower than the opponent's, in a run that has made no call yet: both calls up
\* to their for loop.
ComposeCall(left0, right0, rs, i, rb) ==
    /\ cr_pc = "idle"
    /\ ~elo.asked
    /\ i \in 1..Len(rs)
    /\ rb >= rs[i][1]
    /\ cr_pc' = "loop"
    /\ cr_left0' = left0
    /\ cr_right0' = right0
    /\ ratings' = rs
    /\ raised' = Raised(rs, i, rb)
    /\ tt' = 0
    /\ cr_left' = 0
    /\ cr_right' = Grid
    /\ up_left' = 0
    /\ up_right' = Grid
    /\ UNCHANGED <<teamRating, upRating, elo>>
    /\ UNCHANGED ratingFrame

\* One round of the for loop, in both calls.
ComposeStep ==
    /\ cr_pc = "loop"
    /\ ~LoopDone(tt)
    /\ LET n == Halve(cr_left, cr_right, cr_left0, cr_right0, ratings)
           u == Halve(up_left, up_right, cr_left0, cr_right0, raised)
       IN /\ cr_left' = n[1]
          /\ cr_right' = n[2]
          /\ up_left' = u[1]
          /\ up_right' = u[2]
    /\ tt' = tt + 1
    /\ UNCHANGED <<cr_pc, cr_left0, cr_right0, ratings, raised, teamRating, upRating, elo>>
    /\ UNCHANGED ratingFrame

\* return round((left + right) / 2), in both calls.
ComposeReturn ==
    /\ cr_pc = "loop"
    /\ LoopDone(tt)
    /\ teamRating' = RoundAt(cr_left0, cr_right0, (cr_left + cr_right) \div 2)
    /\ upRating' = RoundAt(cr_left0, cr_right0, (up_left + up_right) \div 2)
    /\ cr_pc' = "done"
    /\ UNCHANGED <<cr_left0, cr_right0, ratings, raised, tt, cr_left, cr_right,
                   up_left, up_right, elo>>
    /\ UNCHANGED ratingFrame

\* getEloWinProbability is asked for a pair of ratings, both ways, and for ra against
\* itself, in a run that has made no call yet.
EloQuery(ra, rb) ==
    /\ cr_pc = "idle"
    /\ ~elo.asked
    /\ elo' = [ra |-> ra, rb |-> rb, asked |-> TRUE,
               ab |-> getEloWinProbability(ra * RatingUnit, rb * RatingUnit),
               ba |-> getEloWinProbability(rb * RatingUnit, ra * RatingUnit),
               aa |-> getEloWinProbability(ra * RatingUnit, ra * RatingUnit)]
    /\ UNCHANGED <<cr_pc, cr_left0, cr_right0, ratings, tt, cr_left, cr_right, teamRating,
                   raised, up_left, up_right, upRating>>
    /\ UNCHANGED ratingFrame

RatingNext ==
    \/ /\ cr_pc = "idle"
       /\ \E bp \in BoundPairs, rs \in RatingLists, i \in 1..MaxOpponents, rb \in Ratings :
             ComposeCall(bp[1], bp[2], rs, i, rb)
    \/ ComposeStep
    \/ ComposeReturn
    \/ \E ra \in EloRatings, rb \in EloRatings : EloQuery(ra, rb)

RatingSpec == Init /\ [][RatingNext]_vars

\* --------------------------------------------------------- claims, team rating
\* composeRatings has returned.
Composed == cr_pc = "done"

\* C21: composeRatings(-100, 10000, [(R, 1)]) with -100 < R < 10000 returns an integer
\* within 1 of R, and for R = 1500 a value in 1499..1501.
C21_SingleOpponent ==
    (/\ Composed
     /\ cr_left0 = -100 /\ cr_right0 = 10000
     /\ Len(ratings) = 1
     /\ ratings[1][2] = 1
     /\ -100 < ratings[1][1] /\ ratings[1][1] < 10000) =>
        /\ teamRating \in (ratings[1][1] - 1)..(ratings[1][1] + 1)
        /\ ratings[1][1] = 1500 => teamRating \in 1499..1501

\* composeRatings(-100, 10000, [(1500, 1)]) returned.
C21_Witness ==
    /\ Composed
    /\ cr_left0 = -100 /\ cr_right0 = 10000
    /\ ratings = <<<<1500, 1>>>>
    /\ teamRating \in 1499..1501

\* C22: with the bounds and the other opponents as they are, composeRatings for a list
\* in which one opponent has a higher rating returns no less than for the list itself.
C22_Monotone ==
    Composed =>
        /\ \E i \in 1..Len(ratings) :
              /\ raised[i][1] >= ratings[i][1]
              /\ raised = Raised(ratings, i, raised[i][1])
        /\ upRating >= teamRating

\* composeRatings returned for two opponents, and more for the list with the first of
\* them at a higher rating.
C22_Witness ==
    /\ Composed
    /\ Len(ratings) = 2
    /\ raised[1][1] > ratings[1][1]
    /\ raised[2] = ratings[2]
    /\ upRating > teamRating

\* The tolerance of a sum of two probabilities: 2 ^ -12.
EloTolerance == One \div 4096

\* C23: getEloWinProbability(a, b) + getEloWinProbability(b, a) is 1 within the
\* tolerance, and getEloWinProbability(a, a) is 0.5.
C23_EloSymmetric ==
    elo.asked =>
        /\ elo.ab + elo.ba - One \in (-EloTolerance)..EloTolerance
        /\ 2 * elo.aa = One

\* The probabilities of two unequal ratings were asked for and neither is 0 or 1.
C23_Witness ==
    /\ elo.asked
    /\ elo.ra # elo.rb
    /\ elo.ab \in 1..(One - 1)
    /\ elo.ba \in 1..(One - 1)
    /\ elo.ab # elo.ba

RECURSIVE TwoTo(_)
TwoTo(n) == IF n = 0 THEN 1 ELSE 2 * TwoTo(n - 1)

====
